---- MODULE Spec2Model ----
(***************************************************************************)
(* Model of the Cahn-Hilliard notebook (src/CahnHilliard.ipynb).           *)
(*                                                                         *)
(* The notebook is four code cells run top to bottom: parameter setup,     *)
(* the periodic laplacian, the initial condition, and the simulation loop  *)
(* followed by the final-snapshot branch.                                  *)
(*                                                                         *)
(* Number representations:                                                 *)
(*  - field values and A, K, M, dT are exact rationals [n, d] in lowest    *)
(*    terms (rounding of the field arithmetic is not modelled);            *)
(*  - save_interval = steps/10 is the IEEE binary64 quotient, kept as its  *)
(*    53-bit significand and scale, because the save test compares a       *)
(*    floating-point remainder with zero.                                  *)
(***************************************************************************)
EXTENDS Integers, Sequences, FiniteSets, TLC

VARIABLES pc, err, names, N, h, A, K, M, dT, steps, save_interval,
          phi, del2phi, range_pos, step, t_index,
          volume_fraction, interfacial_area, saved, trace

vars == <<pc, err, names, N, h, A, K, M, dT, steps, save_interval,
          phi, del2phi, range_pos, step, t_index,
          volume_fraction, interfacial_area, saved, trace>>

(***************************************************************************)
(* Bounds of the model.                                                    *)
(***************************************************************************)
MaxN == 2
MaxSteps == 15
MaxFieldSteps == 1

(***************************************************************************)
(* Exact rational arithmetic.                                              *)
(***************************************************************************)
RECURSIVE GCD(_, _)
GCD(a, b) == IF b = 0 THEN a ELSE GCD(b, a % b)

Abs(x) == IF x < 0 THEN -x ELSE x

R(n, d) ==
    LET g == GCD(Abs(n), d)
    IN  IF g = 0 THEN [n |-> 0, d |-> 1] ELSE [n |-> n \div g, d |-> d \div g]

Zero == R(0, 1)

\* sums go through the least common denominator and products are reduced
\* crosswise first, so that intermediate values stay as small as the result
RAdd(a, b) ==
    LET g == GCD(a.d, b.d)
    IN  R(a.n * (b.d \div g) + b.n * (a.d \div g), (a.d \div g) * b.d)
RNeg(a) == [n |-> -a.n, d |-> a.d]
RSub(a, b) == RAdd(a, RNeg(b))
RMul(a, b) ==
    LET g1 == GCD(Abs(a.n), b.d)
        g2 == GCD(Abs(b.n), a.d)
        h1 == IF g1 = 0 THEN 1 ELSE g1
        h2 == IF g2 = 0 THEN 1 ELSE g2
    IN  R((a.n \div h1) * (b.n \div h2), (a.d \div h2) * (b.d \div h1))
RScale(k, a) == RMul(R(k, 1), a)
RDivInt(a, k) == RMul(a, R(1, k))
\* order: whole parts first, then the fractional parts crosswise
RLt(a, b) ==
    LET fa == a.n \div a.d
        fb == b.n \div b.d
    IN  IF fa # fb THEN fa < fb
        ELSE (a.n % a.d) * b.d < (b.n % b.d) * a.d
RGt(a, b) == RLt(b, a)

(***************************************************************************)
(* binary64 quotient of an integer by ten, and the zero test of the        *)
(* floating-point remainder.                                               *)
(***************************************************************************)
MantBits == 53

RECURSIVE IntBits(_)
IntBits(n) == IF n = 0 THEN <<>> ELSE Append(IntBits(n \div 2), n % 2)

RECURSIVE BitsToInt(_)
BitsToInt(b) ==
    IF b = <<>> THEN 0
    ELSE 2 * BitsToInt(SubSeq(b, 1, Len(b) - 1)) + b[Len(b)]

\* long division by ten: extend the significand one fractional bit at a time
RECURSIVE Expand(_, _, _)
Expand(bits, r, f) ==
    IF Len(bits) >= MantBits THEN [bits |-> bits, r |-> r, f |-> f]
    ELSE LET b == (2 * r) \div 10
             q == (2 * r) % 10
         IN  Expand(IF bits = <<>> /\ b = 0 THEN <<>> ELSE Append(bits, b),
                    q, f + 1)

RECURSIVE Inc(_)
Inc(b) ==
    IF b = <<>> THEN <<1>>
    ELSE IF b[Len(b)] = 0 THEN Append(SubSeq(b, 1, Len(b) - 1), 1)
    ELSE Append(Inc(SubSeq(b, 1, Len(b) - 1)), 0)

\* int / 10 in Python 3: the correctly rounded (half to even) quotient
FloatDiv10(s) ==
    IF s = 0 THEN [neg |-> FALSE, mant |-> <<>>, frac |-> 0]
    ELSE LET a == Abs(s)
             e == Expand(IntBits(a \div 10), a % 10, 0)
             up == e.r > 5 \/ (e.r = 5 /\ e.bits[Len(e.bits)] = 1)
             m == IF up THEN Inc(e.bits) ELSE e.bits
         IN  IF Len(m) > MantBits
             THEN [neg |-> s < 0, mant |-> SubSeq(m, 1, MantBits), frac |-> e.f - 1]
             ELSE [neg |-> s < 0, mant |-> m, frac |-> e.f]

RECURSIVE StripZeros(_)
StripZeros(b) ==
    IF b # <<>> /\ b[Len(b)] = 0 THEN StripZeros(SubSeq(b, 1, Len(b) - 1)) ELSE b

RECURSIVE Pow2(_)
Pow2(k) == IF k = 0 THEN 1 ELSE 2 * Pow2(k - 1)

\* x % y == 0 for an integer x >= 1 and a positive float y: the remainder is
\* computed exactly, so it is zero iff x is an integer multiple of y.  With
\* y = odd / 2^g that needs odd | x; with y an integer it is integer modulo.
ModIsZero(x, y) ==
    LET odd == StripZeros(y.mant)
        g == y.frac - (Len(y.mant) - Len(odd))
    IN  IF g > 0
        THEN Len(odd) <= 30 /\ x % BitsToInt(odd) = 0
        ELSE x % (BitsToInt(odd) * Pow2(-g)) = 0

(***************************************************************************)
(* Fields: an n x n array is a function on Cells(n), indexed from zero.    *)
(***************************************************************************)
Cells(n) == (0 .. (n - 1)) \X (0 .. (n - 1))

Shape(u) == CHOOSE n \in 0 .. MaxN : DOMAIN u = Cells(n)

NoField == [c \in Cells(0) |-> Zero]

\* variant: indices past an edge stay on the edge instead of wrapping
np_roll_clamped(u, shift, axis) ==
    LET n == Shape(u)
        cl(i) == IF i < 0 THEN 0 ELSE IF i > n - 1 THEN n - 1 ELSE i
    IN  [c \in DOMAIN u |->
            IF axis = 0 THEN u[<<cl(c[1] - shift), c[2]>>]
                        ELSE u[<<c[1], cl(c[2] - shift)>>]]

\* np.roll(u, shift, axis): element i of the result is element i - shift of
\* u along the axis, indices taken modulo the axis length
np_roll(u, shift, axis) ==
    LET n == Shape(u)
    IN  [c \in DOMAIN u |->
            IF axis = 0 THEN u[<<(c[1] - shift) % n, c[2]>>]
                        ELSE u[<<c[1], (c[2] - shift) % n>>]]

laplacian(u, hh) ==
    LET d0 == np_roll(u, 1, 0)
        u0 == np_roll(u, -1, 0)
        d1 == np_roll(u, 1, 1)
        u1 == np_roll(u, -1, 1)
    IN  [c \in DOMAIN u |->
            RDivInt(RSub(RAdd(RAdd(RAdd(d0[c], u0[c]), d1[c]), u1[c]),
                         RScale(4, u[c])),
                    hh * hh)]

\* dfdphi = A * (4 * phi**3 - 6 * phi**2 + 2 * phi)
dfdphi(u) ==
    [c \in DOMAIN u |->
        LET p == u[c]
            p2 == RMul(p, p)
            p3 == RMul(p2, p)
        IN  RMul(A, RAdd(RSub(RScale(4, p3), RScale(6, p2)), RScale(2, p)))]

\* chemical_potential = dfdphi - 2 * K * del2phi
chemical_potential(u, lap) ==
    LET f == dfdphi(u)
    IN  [c \in DOMAIN u |-> RSub(f[c], RMul(RScale(2, K), lap[c]))]

\* variant: the chemical potential itself, without its laplacian
RHS_no_laplacian(u, lap) ==
    LET mu == chemical_potential(u, lap)
    IN  [c \in DOMAIN u |-> RMul(M, mu[c])]

\* RHS = M * laplacian(chemical_potential, h)
RHS(u, lap) ==
    LET l2 == laplacian(chemical_potential(u, lap), h)
    IN  [c \in DOMAIN u |-> RMul(M, l2[c])]

\* phi + dT * RHS
Update(u, lap) ==
    LET r == RHS(u, lap)
    IN  [c \in DOMAIN u |-> RAdd(u[c], RMul(dT, r[c]))]

\* np.sum over a boolean mask
RECURSIVE np_sum(_, _)
np_sum(mask, S) ==
    IF S = {} THEN 0
    ELSE LET c == CHOOSE x \in S : TRUE
         IN  (IF mask[c] THEN 1 ELSE 0) + np_sum(mask, S \ {c})

Upper == R(7, 10)
Lower == R(3, 10)

\* variant: the threshold itself counts
VolumeFraction_ge(u) ==
    R(np_sum([c \in DOMAIN u |-> ~RLt(u[c], Upper)], DOMAIN u), N * N)

\* np.sum(phi > 0.7) / (N**2)
VolumeFraction(u) ==
    R(np_sum([c \in DOMAIN u |-> RGt(u[c], Upper)], DOMAIN u), N * N)

\* variant: the lower threshold is dropped
InterfacialArea_no_lower(u) ==
    np_sum([c \in DOMAIN u |-> RLt(u[c], Upper)], DOMAIN u)

\* np.sum(np.logical_and(phi > 0.3, phi < 0.7))
InterfacialArea(u) ==
    np_sum([c \in DOMAIN u |-> RGt(u[c], Lower) /\ RLt(u[c], Upper)], DOMAIN u)

np_zeros(n) == [i \in 1 .. n |-> Zero]

\* variant: one iteration too many
RangeHasNext_inclusive(pos) == pos <= steps

\* for step in range(steps): the iterator has a next value
RangeHasNext(pos) == pos < steps

\* variant: the file is named after the total instead of the step
PlotNumber_total(st) == steps

\* the step number in the name of the file written inside the loop
PlotNumber(st) == st + 1

\* variant: the zero-based step is tested
SaveDue_zero_based(st) == st >= 1 /\ ModIsZero(st, save_interval)

\* (step + 1) % save_interval == 0
SaveDue(st) == ModIsZero(st + 1, save_interval)

Snapshot(t, kind, u, vf, ia) ==
    [t |-> t, kind |-> kind, phi |-> u,
     volume_fraction |-> vf, interfacial_area |-> ia]

(***************************************************************************)
(* Inputs.  The initial field is supplied from outside the integrator; it  *)
(* is drawn from uniform fields and from fields with one distinguished     *)
(* cell.  Exact arithmetic cubes the size of the values at every step, so  *)
(* the non-uniform fields are used for runs of at most MaxFieldSteps.      *)
(***************************************************************************)
UniformValues == {R(0, 1), R(3, 10), R(1, 2), R(7, 10), R(1, 1)}
PointValues == {R(-1, 2), R(0, 1), R(1, 2), R(1, 1)}

Uniform(n, v) == [c \in Cells(n) |-> v]
Point(n, b, at, v) == [c \in Cells(n) |-> IF c = at THEN v ELSE b]

SeedFields(n, s) ==
    {Uniform(n, v) : v \in UniformValues}
    \cup (IF s <= MaxFieldSteps
          THEN {Point(n, b, at, v) : b \in PointValues, at \in Cells(n), v \in PointValues}
          ELSE {})

NSet == -1 .. MaxN
HSet == {-1, 1, 2}
ASet == {R(1, 1), R(2, 1)}
KSet == {R(1, 1), R(3, 1)}
MSet == {R(1, 1)}
dTSet == {R(1, 1), R(1, 2)}

(***************************************************************************)
(* First two cells: parameters are bound, nothing is validated.            *)
(***************************************************************************)
Init ==
    /\ pc = "initial_condition"
    /\ err = ""
    /\ names = {"steps", "save_interval", "laplacian"}
    /\ N \in NSet
    /\ h \in HSet
    /\ A \in ASet
    /\ K \in KSet
    /\ M \in MSet
    /\ dT \in dTSet
    /\ steps \in -1 .. MaxSteps
    /\ save_interval = FloatDiv10(steps)
    /\ phi = NoField
    /\ del2phi = NoField
    /\ range_pos = 0
    /\ step = 0
    /\ t_index = 0
    /\ volume_fraction = <<>>
    /\ interfacial_area = <<>>
    /\ saved = <<>>
    /\ trace = <<>>

\* third cell: the initial field and the t = 0 plot
InitialCondition ==
    /\ pc = "initial_condition"
    /\ IF N < 0
       THEN \* np.random.rand rejects negative dimensions
            /\ pc' = "error"
            /\ err' = "ValueError"
            /\ UNCHANGED <<names, phi, saved, trace>>
       ELSE IF N = 0
       THEN \* phi is the empty array; np.max of it raises
            /\ pc' = "error"
            /\ err' = "ValueError"
            /\ names' = names \cup {"phi"}
            /\ phi' = NoField
            /\ UNCHANGED <<saved, trace>>
       ELSE /\ phi' \in SeedFields(N, steps)
            /\ names' = names \cup {"phi"}
            /\ saved' = Append(saved, Snapshot(0, "png", phi', <<>>, <<>>))
            /\ trace' = <<phi'>>
            /\ pc' = "setup"
            /\ err' = err
    /\ UNCHANGED <<N, h, A, K, M, dT, steps, save_interval, del2phi,
                   range_pos, step, t_index, volume_fraction, interfacial_area>>

\* fourth cell, before the loop
SimSetup ==
    /\ pc = "setup"
    /\ t_index' = 0
    /\ IF steps < 0
       THEN \* np.zeros rejects a negative length
            /\ pc' = "error"
            /\ err' = "ValueError"
            /\ names' = names \cup {"t_index"}
            /\ UNCHANGED <<volume_fraction, interfacial_area>>
       ELSE /\ volume_fraction' = np_zeros(steps)
            /\ interfacial_area' = np_zeros(steps)
            /\ names' = names \cup {"t_index", "volume_fraction", "interfacial_area"}
            /\ pc' = "loop"
            /\ err' = err
    /\ range_pos' = 0
    /\ UNCHANGED <<N, h, A, K, M, dT, steps, save_interval, phi, del2phi,
                   step, saved, trace>>

\* one iteration of the simulation loop
LoopBody ==
    /\ pc = "loop"
    /\ RangeHasNext(range_pos)
    /\ step' = range_pos
    /\ range_pos' = range_pos + 1
    /\ names' = names \cup {"step", "del2phi"}
    /\ del2phi' = laplacian(phi, h)
    /\ phi' = Update(phi, del2phi')
    /\ trace' = Append(trace, phi')
    /\ IF t_index + 1 \notin DOMAIN volume_fraction
       THEN \* volume_fraction[t_index] is out of range
            /\ pc' = "error"
            /\ err' = "IndexError"
            /\ UNCHANGED <<volume_fraction, interfacial_area, saved, t_index>>
       ELSE /\ volume_fraction' =
                  [volume_fraction EXCEPT ![t_index + 1] = VolumeFraction(phi')]
            /\ interfacial_area' =
                  [interfacial_area EXCEPT ![t_index + 1] = R(InterfacialArea(phi'), 1)]
            /\ saved' = IF SaveDue(step')
                        THEN Append(saved, Snapshot(PlotNumber(step'), "png", phi',
                                                    volume_fraction', interfacial_area'))
                        ELSE saved
            /\ t_index' = t_index + 1
            /\ UNCHANGED <<pc, err>>
    /\ UNCHANGED <<N, h, A, K, M, dT, steps, save_interval>>

\* the loop is exhausted: the final-snapshot branch and the closing print
FinalBranch ==
    /\ pc = "loop"
    /\ ~RangeHasNext(range_pos)
    /\ IF "step" \notin names
       THEN /\ pc' = "error"
            /\ err' = "NameError"
            /\ saved' = saved
       ELSE IF save_interval.mant = <<>>
       THEN /\ pc' = "error"
            /\ err' = "ZeroDivisionError"
            /\ saved' = saved
       ELSE IF ~ModIsZero(step + 1, save_interval)
       THEN IF "Beta" \notin names
            THEN \* the file name of the final plot reads Beta
                 /\ pc' = "error"
                 /\ err' = "NameError"
                 /\ saved' = saved
            ELSE /\ saved' = saved \o
                        <<Snapshot(steps, "final_png", phi, volume_fraction, interfacial_area),
                          Snapshot(step + 1, "mat", phi, volume_fraction, interfacial_area)>>
                 /\ pc' = "done"
                 /\ err' = err
       ELSE /\ pc' = "done"
            /\ err' = err
            /\ saved' = saved
    /\ UNCHANGED <<names, N, h, A, K, M, dT, steps, save_interval, phi, del2phi,
                   range_pos, step, t_index, volume_fraction, interfacial_area, trace>>

Next == InitialCondition \/ SimSetup \/ LoopBody \/ FinalBranch

Spec == Init /\ [][Next]_vars

(***************************************************************************)
(* Properties.                                                             *)
(***************************************************************************)
Started == pc \in {"setup", "loop", "done"} \/ (pc = "error" /\ N >= 1)
Finished == pc \in {"done", "error"} /\ N >= 1 /\ steps >= 0

\* the five-point stencil written with wrapped indices
Stencil(u, n, hh, i, j) ==
    RDivInt(RSub(RAdd(RAdd(RAdd(u[<<(i + 1) % n, j>>], u[<<(i - 1) % n, j>>]),
                           u[<<i, (j + 1) % n>>]), u[<<i, (j - 1) % n>>]),
                 RScale(4, u[<<i, j>>])),
            hh * hh)

\* C1: for spacing h > 0 the laplacian of an N x N field is an N x N field
\* whose cell (i,j) is the wrapped five-point stencil divided by h^2.
C1_LaplacianPeriodic ==
    (h > 0 /\ t_index >= 1) =>
        /\ DOMAIN del2phi = Cells(N)
        /\ \A i \in 0 .. (N - 1) : \A j \in 0 .. (N - 1) :
              del2phi[<<i, j>>] = Stencil(trace[t_index], N, h, i, j)

C1_Witness ==
    /\ h = 2 /\ N = MaxN /\ t_index >= 1
    /\ \E c \in Cells(N) : \E e \in Cells(N) : trace[t_index][c] # trace[t_index][e]
    /\ \E c \in Cells(N) : del2phi[c].d > 1

RECURSIVE FieldSum(_, _)
FieldSum(u, S) ==
    IF S = {} THEN Zero
    ELSE LET c == CHOOSE x \in S : TRUE
         IN  RAdd(u[c], FieldSum(u, S \ {c}))

C3_TerminalSnapshot ==
    Finished =>
        \E i \in 1 .. Len(saved) : saved[i].t = steps /\ saved[i].phi = phi

\* C4: a snapshot numbered k is written inside the loop exactly for the
\* completed steps k that are multiples of save_interval, and it holds the
\* field and the diagnostics as they are after step k and before step k+1.
C4_SaveCadence ==
    (Started /\ steps >= 1) =>
        /\ \A k \in 1 .. steps :
              (\E i \in 1 .. Len(saved) : saved[i].t = k /\ saved[i].kind = "png")
                  <=> (k <= t_index /\ ModIsZero(k, save_interval))
        /\ \A i \in 1 .. Len(saved) :
              (saved[i].kind = "png" /\ saved[i].t >= 1) =>
                  LET k == saved[i].t
                  IN  /\ saved[i].phi = trace[k + 1]
                      /\ \A m \in 1 .. k :
                            /\ saved[i].volume_fraction[m] = volume_fraction[m]
                            /\ saved[i].interfacial_area[m] = interfacial_area[m]
                      /\ saved[i].volume_fraction[k] = VolumeFraction(trace[k + 1])
                      /\ \A m \in (k + 1) .. steps :
                            /\ saved[i].volume_fraction[m] = Zero
                            /\ saved[i].interfacial_area[m] = Zero

C4_Witness ==
    /\ pc = "done" /\ steps = 15 /\ Len(saved) = 6
    /\ saved[2].t = 3 /\ saved[6].t = 15

CountAbove(u) == Cardinality({c \in DOMAIN u : RLt(Upper, u[c])})
CountBetween(u) ==
    Cardinality({c \in DOMAIN u : RLt(Lower, u[c]) /\ RLt(u[c], Upper)})

\* C5: after k steps the first k entries of both series are the diagnostics
\* of the field as it was right after the respective update (fraction of
\* cells above 0.7; raw count of cells strictly between 0.3 and 0.7) and the
\* remaining entries are still unwritten.
C5_Diagnostics ==
    (pc \in {"loop", "done"} \/ (pc = "error" /\ N >= 1 /\ steps >= 0)) =>
        /\ Len(volume_fraction) = steps
        /\ Len(interfacial_area) = steps
        /\ Len(trace) = t_index + 1
        /\ \A i \in 1 .. t_index :
              /\ volume_fraction[i] = R(CountAbove(trace[i + 1]), N * N)
              /\ interfacial_area[i] = R(CountBetween(trace[i + 1]), 1)
        /\ \A i \in (t_index + 1) .. steps :
              /\ volume_fraction[i] = Zero
              /\ interfacial_area[i] = Zero

C5_Witness ==
    /\ t_index >= 1 /\ N >= 2 /\ phi # trace[1]
    /\ volume_fraction[1] # Zero /\ interfacial_area[1] # Zero
    /\ CountAbove(trace[1]) # CountAbove(phi)

\* C6: a configuration with h <= 0, N <= 0 or steps < 0 is rejected before
\* any field, diagnostic or snapshot is produced.
C6_RejectInvalid ==
    (N <= 0 \/ h <= 0 \/ steps < 0) =>
        /\ pc \in {"initial_condition", "error"}
        /\ DOMAIN phi = {}
        /\ saved = <<>>
        /\ volume_fraction = <<>>
        /\ t_index = 0

\* C7: a run with a valid configuration never enters an error state.
C7_NoError ==
    (N >= 1 /\ h > 0 /\ steps >= 0) => pc # "error"

\* C8: the step counter starts at 0, moves only by +1, stays within
\* 0..total_steps, equals total_steps when the run has finished, and once it
\* equals total_steps the field and the diagnostic series no longer change.
C8_StepCount ==
    /\ [](steps >= 0 => t_index \in 0 .. steps)
    /\ [](pc = "initial_condition" => t_index = 0)
    /\ [](Finished => t_index = steps)
    /\ [][t_index' = t_index \/ (t_index' = t_index + 1 /\ t_index < steps)]_vars
    /\ [][(pc \in {"loop", "done", "error"} /\ t_index = steps) =>
             (phi' = phi /\ volume_fraction' = volume_fraction
              /\ interfacial_area' = interfacial_area)]_vars

C8_Witness == pc = "done" /\ t_index = steps /\ steps = 10 /\ Len(trace) = 11

\* C9: from an all-zero field every later field is all-zero and every
\* recorded volume fraction and interfacial count is 0.
C9_ZeroFixedPoint ==
    (Started /\ h > 0 /\ trace[1] = Uniform(N, Zero)) =>
        /\ phi = Uniform(N, Zero)
        /\ \A i \in 1 .. Len(trace) : trace[i] = Uniform(N, Zero)
        /\ \A i \in 1 .. Len(volume_fraction) :
              volume_fraction[i] = Zero /\ interfacial_area[i] = Zero

C9_Witness ==
    /\ pc = "loop" /\ N = 2 /\ h > 0 /\ t_index >= 3
    /\ trace[1] = Uniform(N, Zero)

\* C10: snapshots are written in strictly increasing step-number order, the
\* final-snapshot branch is entered only when the last step number is not a
\* multiple of save_interval, and otherwise the final state has been written
\* exactly once, by the loop.
C10_NoDuplicateSnapshot ==
    /\ \A i \in 1 .. Len(saved) : \A j \in 1 .. Len(saved) :
          i < j => saved[i].t < saved[j].t
    /\ (pc = "error" /\ err = "NameError" /\ "step" \in names) =>
          ~ModIsZero(steps, save_interval)
    /\ (\E i \in 1 .. Len(saved) : saved[i].kind \in {"final_png", "mat"}) =>
          ~ModIsZero(steps, save_interval)
    /\ (Finished /\ steps >= 1 /\ ModIsZero(steps, save_interval)) =>
          /\ Cardinality({i \in 1 .. Len(saved) : saved[i].t = steps}) = 1
          /\ saved[Len(saved)].kind = "png"
          /\ saved[Len(saved)].t = steps

C10_Witness ==
    /\ pc = "done" /\ steps = 5 /\ Len(saved) = 6
    /\ saved[6].t = 5

====
